---- MODULE Spec2Model ----
(***************************************************************************)
(* Model of the POST /api/v1 handler ShortenURL (api/routes/shorten.go)   *)
(* running over two Redis databases: DB 1 (per-IP quota records) and DB 0 *)
(* (short id -> URL records).  Every Redis call of the handler is one      *)
(* atomic step; several requests run concurrently and interleave at these *)
(* calls.  Time is counted in ticks of 15 minutes and the stores keep the *)
(* remaining time-to-live of every key, as Redis reports it with TTL:     *)
(* -2 for a missing key, -1 for a key without expiry.                     *)
(*                                                                         *)
(* The fields of the request body are drawn at the validation, the first  *)
(* step that reads them: no earlier step of the handler looks at them.    *)
(***************************************************************************)
EXTENDS Integers, Sequences, FiniteSets, TLC

\* ------------------------------------------------------------------------
\* Bounds of the model
\* ------------------------------------------------------------------------
MaxReqs == 2          \* requests that can be in flight at the same time
APIQuota == 2         \* value of the API_QUOTA environment variable
RaceQuota == 1        \* API_QUOTA where requests race for the last unit
MaxRedirects == 2     \* redirects that are counted
DurationBits == 9     \* width of time.Duration, counted in ticks (int64 ns in Go)

\* ------------------------------------------------------------------------
\* Program constants (one tick = 15 minutes)
\* ------------------------------------------------------------------------
WindowTicks == 2      \* 30*time.Minute
HourTicks == 4        \* time.Hour
DefaultExpiry == 24   \* body.Expiry = 24

Reqs == 1..MaxReqs
IPs == {"10.0.0.1"}
\* The redirect counter lives in DB 1 beside the quota records.
CounterKey == "counter"
QuotaKeys == IPs \cup {CounterKey}
Domain == "localhost:3000"
Schemes == {"http://", "https://"}
Hosts == {"example.com", Domain}
\* URLs are sequences of parts: an optional scheme followed by a host.
BadURL == <<"%%">>
OwnURL == <<Domain>>
BareURL == <<"example.com">>
FullURL == <<"https://", "example.com">>
URLInputs == {BadURL, OwnURL, BareURL, FullURL}
Ids == {"a1b2c3", "d4e5f6", "0718f9", "mylink"}
GenIds == {"a1b2c3", "d4e5f6"}
ShortInputs == {"", "mylink", "a1b2c3"}
ExpiryInputs == {0, 1, -1}

Missing == -2         \* TTL reply for a key that does not exist
NoExpiry == -1        \* TTL reply for a key without expiry

NoQuota == [val |-> 0, ttl |-> Missing]
NoLink == [url |-> <<>>, ttl |-> Missing]
NoResp == [status |-> "", url |-> <<>>, short |-> <<>>, expiry |-> 0,
           remaining |-> 0, reset |-> 0]
IdleReq == [pc |-> "idle", ip |-> "", url |-> <<>>, expiry |-> 0,
            id |-> "", val |-> 0, resp |-> NoResp]
NoBorn == [url |-> <<>>, due |-> Missing]
MaxCount == APIQuota + MaxReqs + 1


\* The hours of a day-long link between its first and its last pass in one leap.
LeapTicks == (DefaultExpiry - 1) * HourTicks

VARIABLES
    quotaDB,    \* DB 1: client IP -> [val, ttl]
    linkDB,     \* DB 0: short id -> [url, ttl]
    req,        \* the handler activations: position, body, locals, response
    env,        \* what the surroundings do in this behaviour: the activations
                \* in use, the bodies that clients send, whether Redis calls
                \* may fail
    failed,     \* history: the Redis call of the activation that failed
    okCount,    \* history: links created for the client in the current window
    born        \* history: per id, the last created link and its promised life

vars == <<quotaDB, linkDB, req, env, failed, okCount, born>>

\* ------------------------------------------------------------------------
\* Pure helpers
\* ------------------------------------------------------------------------
Min(a, b) == IF a < b THEN a ELSE b
Max(a, b) == IF a > b THEN a ELSE b

\* time.Duration arithmetic wraps around (two's complement).
Wrap(x) ==
    LET m == 2 ^ DurationBits
        h == 2 ^ (DurationBits - 1)
    IN  ((x + h) % m) - h

\* govalidator.IsURL: a host, optionally preceded by a scheme.
IsURL(u) ==
    /\ Len(u) \in {1, 2}
    /\ u[Len(u)] \in Hosts
    /\ Len(u) = 2 => u[1] \in Schemes

HostOf(u) == u[Len(u)]

\* helpers.RemoveDomainError: FALSE when the URL points at the service itself.
RemoveDomainError(u) == HostOf(u) # Domain

\* helpers.EnforceHTTP: prefix "http://" when the URL carries no scheme.
EnforceHTTP(u) == IF u[1] \in Schemes THEN u ELSE <<"http://">> \o u

\* go-redis Set: EX/PX is sent only for a positive expiration; otherwise the
\* key is written without expiry.
SetTTL(d) == IF d > 0 THEN d ELSE NoExpiry

\* A decrement that is lost: the record stays as it was.
Decr_Lost(rec) == rec

\* Redis DECR: a missing key counts as 0 and is created without expiry; the
\* expiry of an existing key is kept.
Decr(rec) ==
    IF rec.ttl = Missing
    THEN [val |-> -1, ttl |-> NoExpiry]
    ELSE [rec EXCEPT !.val = @ - 1]

\* Redis INCR: a missing key counts as 0 and is created without expiry.
Incr(rec) ==
    IF rec.ttl = Missing
    THEN [val |-> 1, ttl |-> NoExpiry]
    ELSE [rec EXCEPT !.val = @ + 1]

\* A key that exists.
Live(rec) == rec.ttl # Missing

\* GET /:id looks the id up in DB 0: the target, or <<>> for 404.
Resolve(id) == IF Live(linkDB[id]) THEN linkDB[id].url ELSE <<>>

\* The outcome of one Redis call: TRUE when it succeeds.
StoreOK == IF env.faults THEN BOOLEAN ELSE {TRUE}

Reply(status) == [NoResp EXCEPT !.status = status]

InFlight(r) == req[r].pc \notin {"idle", "done"}

\* The value of the redirect counter.
Redirects == IF Live(quotaDB[CounterKey]) THEN quotaDB[CounterKey].val ELSE 0

\* ------------------------------------------------------------------------
\* Initial state
\* ------------------------------------------------------------------------
InitStores ==
    /\ quotaDB = [c \in QuotaKeys |-> NoQuota]
    /\ linkDB = [i \in Ids |-> NoLink]
    /\ req = [r \in Reqs |-> IdleReq]
    /\ failed = [r \in Reqs |-> ""]
    /\ okCount = [c \in IPs |-> 0]
    /\ born = [i \in Ids |-> NoBorn]

\* Concurrent requests for one short id, Redis calls may fail.
Init ==
    /\ InitStores
    /\ env = [faults |-> TRUE, quota |-> APIQuota, reqs |-> Reqs,
              urls |-> {BadURL, OwnURL, FullURL}, shorts |-> {"", "a1b2c3"},
              gens |-> {"a1b2c3"}, expiries |-> {1}]

\* Concurrent requests racing for the last unit of quota, Redis calls succeed.
InitRace ==
    /\ InitStores
    /\ env = [faults |-> FALSE, quota |-> RaceQuota, reqs |-> Reqs,
              urls |-> {FullURL}, shorts |-> {""},
              gens |-> {"a1b2c3", "d4e5f6"}, expiries |-> {1}]

\* One request after another, Redis calls succeed, generated ids.
InitSerial ==
    /\ InitStores
    /\ env = [faults |-> FALSE, quota |-> APIQuota, reqs |-> {1}, urls |-> URLInputs,
              shorts |-> {""}, gens |-> GenIds, expiries |-> ExpiryInputs]

\* Concurrent requests racing for the creation of the quota record, Redis
\* calls succeed, an identifier for every link.
InitBurst ==
    /\ InitStores
    /\ env = [faults |-> FALSE, quota |-> APIQuota, reqs |-> Reqs,
              urls |-> {FullURL}, shorts |-> {"", "mylink"},
              gens |-> {"a1b2c3", "d4e5f6", "0718f9"}, expiries |-> {1}]

\* Requests to shorten and requests to resolve, Redis calls succeed.
InitResolve ==
    /\ InitStores
    /\ env = [faults |-> FALSE, quota |-> APIQuota, reqs |-> Reqs,
              urls |-> {FullURL}, shorts |-> {""}, gens |-> {"a1b2c3"},
              expiries |-> {1}, lookups |-> {"a1b2c3", "mylink"}]

\* ------------------------------------------------------------------------
\* ShortenURL, one action per Redis call
\* ------------------------------------------------------------------------
\* A request arrives and its body parses.
Start(r) ==
    /\ ~InFlight(r)
    /\ r \in env.reqs
    /\ \E ip \in IPs :
         req' = [req EXCEPT ![r] = [IdleReq EXCEPT !.pc = "get_quota", !.ip = ip]]
    /\ failed' = [failed EXCEPT ![r] = ""]
    /\ UNCHANGED <<quotaDB, linkDB, env, okCount, born>>

\* The handler returns: the response goes out and its locals are gone.
Return(r, resp) ==
    req' = [req EXCEPT ![r] =
               [IdleReq EXCEPT !.pc = "done", !.ip = req[r].ip, !.resp = resp]]

\* A request arrives and its body does not parse.
ParseError(r) ==
    /\ ~InFlight(r)
    /\ r \in env.reqs
    /\ \E ip \in IPs :
         req' = [req EXCEPT ![r] =
                [IdleReq EXCEPT !.pc = "done", !.ip = ip, !.resp = Reply("BadJSON")]]
    /\ failed' = [failed EXCEPT ![r] = ""]
    /\ UNCHANGED <<quotaDB, linkDB, env, okCount, born>>

\* A check that still admits at remaining = 0.
QuotaGet_AdmitsAtZero(r) ==
    /\ req[r].pc = "get_quota"
    /\ \E ok \in StoreOK :
         LET ip == req[r].ip
             rec == quotaDB[ip]
             valInt == IF ok THEN rec.val ELSE 0
         IN  IF ok /\ rec.ttl = Missing
             THEN /\ req' = [req EXCEPT ![r].pc = "set_quota"]
                  /\ UNCHANGED failed
             ELSE /\ req' = [req EXCEPT ![r].pc =
                                IF valInt < 0 THEN "ttl_quota" ELSE "validate"]
                  /\ failed' = [failed EXCEPT ![r] = IF ok THEN @ ELSE "quota_read"]
    /\ UNCHANGED <<quotaDB, linkDB, env, okCount, born>>

\* val, err := r2.Get(ip) and the branch on it.
QuotaGet(r) ==
    /\ req[r].pc = "get_quota"
    /\ \E ok \in StoreOK :
         LET ip == req[r].ip
             rec == quotaDB[ip]
             valInt == IF ok THEN rec.val ELSE 0
         IN  IF ok /\ rec.ttl = Missing
             THEN /\ req' = [req EXCEPT ![r].pc = "set_quota"]
                  /\ UNCHANGED failed
             ELSE /\ req' = [req EXCEPT ![r].pc =
                                IF valInt <= 0 THEN "ttl_quota" ELSE "validate"]
                  /\ failed' = [failed EXCEPT ![r] = IF ok THEN @ ELSE "quota_read"]
    /\ UNCHANGED <<quotaDB, linkDB, env, okCount, born>>

\* r2.Set(ip, API_QUOTA, 30*time.Minute); its result is not looked at.
QuotaSet(r) ==
    /\ req[r].pc = "set_quota"
    /\ \E ok \in StoreOK :
         LET ip == req[r].ip
         IN  quotaDB' = IF ok
                        THEN [quotaDB EXCEPT ![ip] =
                                 [val |-> env.quota, ttl |-> SetTTL(WindowTicks)]]
                        ELSE quotaDB
    /\ req' = [req EXCEPT ![r].pc = "validate"]
    /\ UNCHANGED <<linkDB, env, failed, okCount, born>>

\* ttl, _ := r2.TTL(ip) and the 429 response.
QuotaTTL(r) ==
    /\ req[r].pc = "ttl_quota"
    /\ \E ok \in StoreOK :
         LET ttl == IF ok THEN quotaDB[req[r].ip].ttl ELSE 0
         IN  Return(r, [Reply("RateLimited") EXCEPT !.reset = ttl])
    /\ UNCHANGED <<quotaDB, linkDB, env, failed, okCount, born>>

\* A validation that lets a URL of the service's own domain through.
Validate_OwnDomainAccepted(r) ==
    /\ req[r].pc = "validate"
    /\ \E url \in env.urls, short \in env.shorts, expiry \in env.expiries,
          gen \in env.gens :
         IF ~IsURL(url)
         THEN Return(r, Reply("InvalidURL"))
         ELSE req' = [req EXCEPT ![r].pc = "get_link",
                                 ![r].url = EnforceHTTP(url),
                                 ![r].expiry = expiry,
                                 ![r].id = IF short = "" THEN gen ELSE short]
    /\ UNCHANGED <<quotaDB, linkDB, env, failed, okCount, born>>

\* A validation that stores the URL as it was sent.
Validate_NotNormalised(r) ==
    /\ req[r].pc = "validate"
    /\ \E url \in env.urls, short \in env.shorts, expiry \in env.expiries,
          gen \in env.gens :
         IF ~IsURL(url)
         THEN Return(r, Reply("InvalidURL"))
         ELSE IF ~RemoveDomainError(url)
         THEN Return(r, Reply("InvalidDomain"))
         ELSE req' = [req EXCEPT ![r].pc = "get_link",
                                 ![r].url = url,
                                 ![r].expiry = expiry,
                                 ![r].id = IF short = "" THEN gen ELSE short]
    /\ UNCHANGED <<quotaDB, linkDB, env, failed, okCount, born>>

\* URL validation, normalisation and the choice of the short id.
Validate(r) ==
    /\ req[r].pc = "validate"
    /\ \E url \in env.urls, short \in env.shorts, expiry \in env.expiries,
          gen \in env.gens :
         IF ~IsURL(url)
         THEN Return(r, Reply("InvalidURL"))
         ELSE IF ~RemoveDomainError(url)
         THEN Return(r, Reply("InvalidDomain"))
         ELSE req' = [req EXCEPT ![r].pc = "get_link",
                                 ![r].url = EnforceHTTP(url),
                                 ![r].expiry = expiry,
                                 ![r].id = IF short = "" THEN gen ELSE short]
    /\ UNCHANGED <<quotaDB, linkDB, env, failed, okCount, born>>

\* existing, _ := r.Get(id) and the 403 response.
LinkGet(r) ==
    /\ req[r].pc = "get_link"
    /\ \E ok \in StoreOK :
         LET existing == IF ok THEN linkDB[req[r].id].url ELSE <<>>
         IN  IF existing # <<>>
             THEN Return(r, Reply("AlreadyExists")) /\ UNCHANGED failed
             ELSE /\ req' = [req EXCEPT ![r].pc = "set_link"]
                  /\ failed' = [failed EXCEPT ![r] =
                                IF ok THEN @ ELSE "collision_lookup"]
    /\ UNCHANGED <<quotaDB, linkDB, env, okCount, born>>

\* A link write that reaches the store although the call reports an error.
LinkSet_WrittenOnError(r) ==
    /\ req[r].pc = "set_link"
    /\ \E ok \in StoreOK :
         LET id == req[r].id
             ip == req[r].ip
             expiry == IF req[r].expiry = 0 THEN DefaultExpiry ELSE req[r].expiry
         IN  /\ linkDB' = [linkDB EXCEPT ![id] =
                   [url |-> req[r].url, ttl |-> SetTTL(Wrap(expiry * HourTicks))]]
             /\ born' = [born EXCEPT ![id] =
                   [url |-> req[r].url, due |-> Max(0, expiry * HourTicks)]]
             /\ IF ok
                THEN /\ req' = [req EXCEPT ![r].pc = "decr", ![r].expiry = expiry]
                     /\ okCount' = [okCount EXCEPT ![ip] = Min(@ + 1, MaxCount)]
                     /\ UNCHANGED failed
                ELSE /\ Return(r, Reply("StorageError"))
                     /\ failed' = [failed EXCEPT ![r] = "link_write"]
                     /\ UNCHANGED okCount
    /\ UNCHANGED <<quotaDB, env>>

\* The default expiry, r.Set(id, url, Expiry*time.Hour) and the 500 response.
LinkSet(r) ==
    /\ req[r].pc = "set_link"
    /\ \E ok \in StoreOK :
         LET id == req[r].id
             ip == req[r].ip
             expiry == IF req[r].expiry = 0 THEN DefaultExpiry ELSE req[r].expiry
         IN  IF ok
             THEN /\ linkDB' = [linkDB EXCEPT ![id] =
                        [url |-> req[r].url, ttl |-> SetTTL(Wrap(expiry * HourTicks))]]
                  /\ req' = [req EXCEPT ![r].pc = "decr", ![r].expiry = expiry]
                  /\ UNCHANGED failed
                  /\ okCount' = [okCount EXCEPT ![ip] = Min(@ + 1, MaxCount)]
                  /\ born' = [born EXCEPT ![id] =
                        [url |-> req[r].url, due |-> Max(0, expiry * HourTicks)]]
             ELSE /\ Return(r, Reply("StorageError"))
                  /\ failed' = [failed EXCEPT ![r] = "link_write"]
                  /\ UNCHANGED <<linkDB, okCount, born>>
    /\ UNCHANGED <<quotaDB, env>>

\* r2.Decr(ip); its result is not looked at.
QuotaDecr(r) ==
    /\ req[r].pc = "decr"
    /\ \E ok \in StoreOK :
         LET ip == req[r].ip
         IN  IF ok
             THEN quotaDB' = [quotaDB EXCEPT ![ip] = Decr(@)]
             ELSE UNCHANGED quotaDB
    /\ req' = [req EXCEPT ![r].pc = "get_quota2"]
    /\ UNCHANGED <<linkDB, env, failed, okCount, born>>

\* val, _ = r2.Get(ip) for the response.
QuotaGet2(r) ==
    /\ req[r].pc = "get_quota2"
    /\ \E ok \in StoreOK :
         req' = [req EXCEPT ![r].pc = "ttl_quota2",
                            ![r].val = IF ok THEN quotaDB[req[r].ip].val ELSE 0]
    /\ UNCHANGED <<quotaDB, linkDB, env, failed, okCount, born>>

\* ttl, _ := r2.TTL(ip) and the 200 response.
QuotaTTL2(r) ==
    /\ req[r].pc = "ttl_quota2"
    /\ \E ok \in StoreOK :
         LET ttl == IF ok THEN quotaDB[req[r].ip].ttl ELSE 0
         IN  Return(r, [status |-> "OK",
                        url |-> req[r].url,
                        short |-> <<Domain, req[r].id>>,
                        expiry |-> req[r].expiry,
                        remaining |-> req[r].val,
                        reset |-> ttl])
    /\ UNCHANGED <<quotaDB, linkDB, env, failed, okCount, born>>

\* ------------------------------------------------------------------------
\* GET /:id, one action per store call: the lookup in DB 0, then the
\* increment of the counter in DB 1 and the redirect.
\* ------------------------------------------------------------------------
StartResolve(r) ==
    /\ ~InFlight(r)
    /\ r \in env.reqs
    /\ Redirects < MaxRedirects
    /\ \E ip \in IPs, id \in env.lookups :
         req' = [req EXCEPT ![r] =
                    [IdleReq EXCEPT !.pc = "res_get", !.ip = ip, !.id = id]]
    /\ failed' = [failed EXCEPT ![r] = ""]
    /\ UNCHANGED <<quotaDB, linkDB, env, okCount, born>>

\* A resolve that counts the lookups that found nothing as well.
ResolveGet_CountsMisses(r) ==
    /\ req[r].pc = "res_get"
    /\ req' = [req EXCEPT ![r].pc = "res_incr", ![r].url = Resolve(req[r].id)]
    /\ UNCHANGED <<quotaDB, linkDB, env, failed, okCount, born>>

ResolveGet(r) ==
    /\ req[r].pc = "res_get"
    /\ IF Resolve(req[r].id) = <<>>
       THEN Return(r, Reply("NotFound"))
       ELSE req' = [req EXCEPT ![r].pc = "res_incr", ![r].url = Resolve(req[r].id)]
    /\ UNCHANGED <<quotaDB, linkDB, env, failed, okCount, born>>

ResolveIncr(r) ==
    /\ req[r].pc = "res_incr"
    /\ quotaDB' = [quotaDB EXCEPT ![CounterKey] = Incr(@)]
    /\ Return(r, [Reply("Redirect") EXCEPT !.url = req[r].url])
    /\ UNCHANGED <<linkDB, env, failed, okCount, born>>

\* ------------------------------------------------------------------------
\* The stores' clock.  Time is sampled: it is followed tick by tick during
\* the first and the last hour of a day-long link, and the hours between
\* pass in one leap.
\* ------------------------------------------------------------------------
\* A key after d ticks: gone when its time is up, untouched without expiry.
Aged(rec, d, none) ==
    IF rec.ttl > d THEN [rec EXCEPT !.ttl = @ - d]
    ELSE IF rec.ttl > 0 THEN none
    ELSE rec

\* Some key, or some promised life, still has time to run.
Running ==
    ~ \A c \in IPs, i \in Ids :
          quotaDB[c].ttl <= 0 /\ linkDB[i].ttl <= 0 /\ born[i].due <= 0

Elapse(d) ==
    LET gone(c) == quotaDB[c].ttl > 0 /\ quotaDB[c].ttl <= d
    IN  /\ Running
        /\ quotaDB' = [c \in QuotaKeys |-> Aged(quotaDB[c], d, NoQuota)]
        /\ linkDB' = [i \in Ids |-> Aged(linkDB[i], d, NoLink)]
        /\ okCount' = [c \in IPs |-> IF gone(c) THEN 0 ELSE okCount[c]]
        /\ born' = [i \in Ids |-> IF born[i].due > 0
                                  THEN [born[i] EXCEPT !.due = Max(0, @ - d)]
                                  ELSE born[i]]
        /\ UNCHANGED <<req, env, failed>>

Tick ==
    /\ \A i \in Ids : linkDB[i].ttl - 1 \notin (HourTicks + 1)..LeapTicks
    /\ \A i \in Ids : born[i].due - 1 \notin (HourTicks + 1)..LeapTicks
    /\ Elapse(1)

Leap ==
    /\ Running
    /\ Elapse(LeapTicks)

\* ------------------------------------------------------------------------
\* Specifications
\* ------------------------------------------------------------------------
Next ==
    \/ \E r \in Reqs : Start(r)
    \/ \E r \in Reqs : ParseError(r)
    \/ \E r \in Reqs : QuotaGet(r)
    \/ \E r \in Reqs : QuotaSet(r)
    \/ \E r \in Reqs : QuotaTTL(r)
    \/ \E r \in Reqs : Validate(r)
    \/ \E r \in Reqs : LinkGet(r)
    \/ \E r \in Reqs : LinkSet(r)
    \/ \E r \in Reqs : QuotaDecr(r)
    \/ \E r \in Reqs : QuotaGet2(r)
    \/ \E r \in Reqs : QuotaTTL2(r)
    \/ Tick
    \/ Leap

Spec == Init /\ [][Next]_vars

SpecRace == InitRace /\ [][Next]_vars

SpecSerial == InitSerial /\ [][Next]_vars

\* The steps of the handler alone: a burst of requests during which no
\* time passes.
NextBurst ==
    \E r \in Reqs :
        \/ Start(r)
        \/ QuotaGet(r)
        \/ QuotaSet(r)
        \/ QuotaTTL(r)
        \/ Validate(r)
        \/ LinkGet(r)
        \/ LinkSet(r)
        \/ QuotaDecr(r)
        \/ QuotaGet2(r)
        \/ QuotaTTL2(r)

SpecBurst == InitBurst /\ [][NextBurst]_vars

NextResolve ==
    \/ Next
    \/ \E r \in Reqs : StartResolve(r)
    \/ \E r \in Reqs : ResolveGet(r)
    \/ \E r \in Reqs : ResolveIncr(r)

SpecResolve == InitResolve /\ [][NextResolve]_vars

\* ------------------------------------------------------------------------
\* Properties
\* ------------------------------------------------------------------------
\* The activation has written its link: only the quota bookkeeping is left.
Committed(r) == req[r].pc \in {"decr", "get_quota2", "ttl_quota2"}

Ends(r, status) == req[r].pc = "done" /\ req[r].resp.status = status

\* C1: within one quota window at most `quota` shortening requests of a
\* client are admitted (create their link), under any interleaving.
C1_AtMostQuotaPerWindow == \A c \in IPs : okCount[c] <= env.quota

\* C2: a rate-limited client is admitted again once the window has elapsed:
\* a quota record that rejects (remaining <= 0) has at most the window
\* duration left to live, after which it is absent.
C2_RateLimitEnds ==
    \A c \in IPs :
        Live(quotaDB[c]) /\ quotaDB[c].val <= 0 => quotaDB[c].ttl \in 1..WindowTicks

\* C3: once a rate-limit check has seen the client's record with
\* remaining <= 0 (the activation is about to answer 429), no step raises
\* remaining above 0 while that record is live.
C3_LimitedStaysLimited ==
    [][\A r \in Reqs :
          LET c == req[r].ip
          IN  /\ req[r].pc = "ttl_quota" /\ failed[r] = ""
              /\ Live(quotaDB[c]) /\ quotaDB[c].val <= 0
              /\ Live(quotaDB'[c])
              => quotaDB'[c].val <= 0]_vars

\* C4: a request whose identifier matches a live link record at the
\* collision lookup is always rejected with AlreadyExists, and the lookup
\* leaves the link records unchanged.
C4_CollisionAlwaysRejected ==
    [][\A r \in Reqs :
          /\ req[r].pc = "get_link" /\ req'[r].pc # "get_link"
          /\ Live(linkDB[req[r].id])
          => /\ req'[r].pc = "done" /\ req'[r].resp.status = "AlreadyExists"
             /\ linkDB' = linkDB]_vars

\* C5: while a link record is live no step of any shorten request writes
\* it again: the id keeps resolving to the same target until it expires.
C5_LiveLinkNeverRewritten ==
    [][\A i \in Ids : Live(linkDB[i]) /\ req' # req => linkDB'[i] = linkDB[i]]_vars

\* C6: a request that ends in InvalidURL, InvalidDomain, AlreadyExists or
\* StorageError has no partial side effects: the step in which an activation
\* writes a link or lowers the client's remaining quota commits it, and a
\* committed activation stays committed and answers OK only.
C6_NoPartialSideEffects ==
    [][\A r \in Reqs :
          req'[r] # req[r] =>
            /\ (linkDB' # linkDB \/ quotaDB'[req'[r].ip].val < quotaDB[req'[r].ip].val)
               => req'[r].pc \in {"decr", "get_quota2"}
            /\ Committed(r)
               => req'[r].pc \in {"get_quota2", "ttl_quota2", "done"}
            /\ req'[r].pc = "done" /\ req'[r].resp.status \in
                  {"InvalidURL", "InvalidDomain", "AlreadyExists", "StorageError"}
               => ~Committed(r) /\ linkDB' = linkDB /\ quotaDB' = quotaDB]_vars

\* C6 witness: a request has ended in StorageError, no link exists and the
\* client's quota is untouched.
C6_Witness ==
    \E r \in Reqs :
        /\ Ends(r, "StorageError")
        /\ \A i \in Ids : ~Live(linkDB[i])
        /\ quotaDB[req[r].ip] = [val |-> env.quota, ttl |-> WindowTicks]

\* C7: a link created with expiry E hours resolves to its target at every
\* time before E hours have elapsed and to NotFound once they have.
C7_LinkLivesExactlyEHours ==
    \A i \in Ids :
        born[i].due # Missing =>
            Resolve(i) = IF born[i].due > 0 THEN born[i].url ELSE <<>>

\* C8: the link is stored with a time-to-live of 24 hours when the request's
\* expiry is zero, and of exactly expiry * 1 hour otherwise; the response
\* reports that expiry.
C8_StoredTTLIsExpiryHours ==
    [][\A r \in Reqs :
          /\ req[r].pc = "set_link" /\ req'[r].pc = "decr"
             => LET e == IF req[r].expiry = 0 THEN 24 ELSE req[r].expiry
                IN  /\ linkDB'[req[r].id].ttl = e * HourTicks
                    /\ req'[r].expiry = e
          /\ req[r].pc = "ttl_quota2" /\ req'[r].pc = "done"
             => req'[r].resp.expiry = req[r].expiry]_vars

\* C9: a client sends its requests one after another inside one window (the
\* window record is live when the response is built): each success consumes
\* one unit, the k-th success reports remaining = quota - k, down to 0, and
\* once quota links were created the next check rejects with RateLimited.
C9_RemainingCountsDown ==
    [][\A r \in Reqs :
          LET c == req[r].ip
          IN  /\ req[r].pc = "ttl_quota2" /\ req'[r].pc = "done"
                 /\ req'[r].resp.reset > 0
                 => /\ req'[r].resp.status = "OK"
                    /\ okCount[c] \in 1..env.quota
                    /\ req'[r].resp.remaining = env.quota - okCount[c]
              /\ req[r].pc = "get_quota" /\ req'[r].pc # "get_quota"
                 /\ okCount[c] >= env.quota
                 => req'[r].pc = "ttl_quota"]_vars

\* C9 witness: the last unit of the window was consumed and the response
\* reports remaining 0.
C9_Witness ==
    \E r \in Reqs :
        /\ Ends(r, "OK")
        /\ req[r].resp.remaining = 0 /\ req[r].resp.reset > 0
        /\ okCount[req[r].ip] = env.quota
        /\ env.quota = APIQuota

\* C10: a Redis failure on the quota read, the collision lookup or the link
\* write is surfaced as StorageError and as nothing else.
C10_StoreFailureIsStorageError ==
    \A r \in Reqs :
        req[r].pc = "done" /\ failed[r] # "" => req[r].resp.status = "StorageError"

\* The activation is past the validation and carries its normalised URL.
Validated(r) == req[r].pc \in {"get_link", "set_link", "decr", "get_quota2", "ttl_quota2"}

Normalised ==
    {IF Len(u) = 1 THEN <<"http://">> \o u ELSE u :
        u \in {v \in env.urls : IsURL(v)}}

\* C12: every stored URL is the normalised form of a URL sent (a URL without
\* scheme is stored with "http://" in front, a URL with a scheme unchanged),
\* and a successful response reports the URL that was stored under its id.
C12_StoredURLIsNormalised ==
    /\ \A i \in Ids : Live(linkDB[i]) => linkDB[i].url \in Normalised
    /\ \A r \in Reqs :
          Ends(r, "OK") =>
            /\ req[r].resp.url \in Normalised
            /\ req[r].resp.url = born[req[r].resp.short[2]].url

\* C12 witness: a URL sent without scheme is stored, and reported, with
\* "http://" in front.
C12_Witness ==
    \E r \in Reqs :
        /\ Ends(r, "OK")
        /\ req[r].resp.url = <<"http://">> \o BareURL
        /\ linkDB[req[r].resp.short[2]].url = <<"http://">> \o BareURL

C14_OvershootAtMostInFlight == \A c \in IPs : okCount[c] <= env.quota + MaxReqs

\* C15: the rate-limit check comes before everything that reads the body:
\* a request of a client whose live quota record has remaining <= 0 goes from
\* the check straight to the 429 response, and neither step changes a quota
\* record or a link record.
C15_RateLimitBeforeValidation ==
    [][\A r \in Reqs :
          LET c == req[r].ip
          IN  /\ req[r].pc = "get_quota" /\ req'[r] # req[r]
                 /\ Live(quotaDB[c]) /\ quotaDB[c].val <= 0
                 => /\ req'[r].pc = "ttl_quota"
                    /\ quotaDB' = quotaDB /\ linkDB' = linkDB
              /\ req[r].pc = "ttl_quota" /\ req'[r] # req[r]
                 => /\ req'[r].pc = "done" /\ req'[r].resp.status = "RateLimited"
                    /\ quotaDB' = quotaDB /\ linkDB' = linkDB]_vars

\* C15 witness: a request was rejected with RateLimited by a successful
\* check of a live record with remaining <= 0, a link being live.
C15_Witness ==
    \E r \in Reqs :
        /\ Ends(r, "RateLimited") /\ failed[r] = ""
        /\ Live(quotaDB[req[r].ip]) /\ quotaDB[req[r].ip].val <= 0
        /\ req[r].resp.reset > 0
        /\ \E i \in Ids : Live(linkDB[i])

\* C16: the window of a client is fixed when its quota record is created: no
\* step of a request gives a live record a later expiry or a higher
\* remaining count.
C16_WindowSetOnce ==
    [][\A c \in IPs :
          quotaDB[c].ttl > 0 /\ req' # req /\ Live(quotaDB'[c])
          => /\ quotaDB'[c].ttl = quotaDB[c].ttl
             /\ quotaDB'[c].val <= quotaDB[c].val]_vars

\* C17: every quota record of a client that exists has a time-to-live.
C17_QuotaRecordHasTTL ==
    \A c \in IPs : Live(quotaDB[c]) => quotaDB[c].ttl > 0

\* C18: every link record that exists has a time-to-live: it was written
\* with a finite expiry in the future, whatever the expiry of the request.
C18_LinkRecordHasTTL ==
    \A i \in Ids : Live(linkDB[i]) => linkDB[i].ttl > 0

TypeOK ==
    /\ \A c \in IPs : quotaDB[c].ttl \in {Missing, NoExpiry} \cup 1..WindowTicks
    /\ \A i \in Ids : linkDB[i].ttl >= Missing
    /\ \A r \in Reqs : req[r].pc \in
         {"idle", "get_quota", "set_quota", "ttl_quota", "validate", "get_link",
          "set_link", "decr", "get_quota2", "ttl_quota2", "done",
          "res_get", "res_incr"}
====
